---- MODULE Spec2Model ----
(***************************************************************************)
(* A model of the ASR engine orchestrator (ASRModelManager,                *)
(* src/core/asr/model_manager.py) and of the file transcription pipeline   *)
(* (FileTranscriber, src/core/audio/file_transcriber.py).                  *)
(*                                                                         *)
(* The orchestrator's methods are operators from an execution context (a   *)
(* record of the object's fields plus the events emitted and the value     *)
(* returned) to the context after the call.  Spec runs them as atomic      *)
(* calls of one thread; SpecConc runs load_model step by step against a    *)
(* second thread that calls transcribe.  SpecFT runs the pipeline: the     *)
(* thread that calls start_transcription and stop_transcription, the       *)
(* worker threads, and the ffmpeg processes.  SpecText applies the text    *)
(* shaping of the pipeline to bounded texts, and SpecReg runs the plugin   *)
(* registry (PluginRegistry, src/core/plugins/plugin_registry.py).         *)
(***************************************************************************)
EXTENDS Integers, Sequences, FiniteSets, TLC

VARIABLES
    \* ASRModelManager fields
    models_config,      \* self.models_config: name -> descriptor
    current_engine,     \* self.current_engine: the adapter, or NoEngine
    model_type,         \* self.model_type: a model name, or NoneStr
    current_model,      \* self.current_model: None (FALSE) or True
    current_device,     \* self.current_device: a device, or NoneStr
    is_recognizing,     \* self.is_recognizing
    \* the last call made on the manager: its inputs, the fields before it,
    \* the events it emitted and what it returned
    last,
    \* SpecConc: position of the thread inside load_model, and the last
    \* decode made by the second thread
    load_pc,
    decoded,
    \* FileTranscriber fields
    is_transcribing,        \* self.is_transcribing
    transcription_thread,   \* self.transcription_thread: a job, or NoHandle
    temp_files,             \* self.temp_files: the list of temp files
    ffmpeg_process,         \* self.ffmpeg_process: a process, or NoHandle
    \* what the pipeline runs in
    disk,                   \* the temp files that exist
    proc,                   \* the state of every ffmpeg process
    caller,                 \* the thread that calls start and stop
    worker,                 \* the worker thread of every job
    \* the jobs accepted so far and what was observed of each
    njobs,
    job,
    \* the latest call of start_transcription or stop_transcription
    call,
    \* a text given to _format_text and what it returned
    shaping,
    \* PluginRegistry._plugins: family name -> plugin class
    plugins,
    \* the latest call made on the registry, and per name the class of the
    \* most recent register_plugin call
    reg,
    \* the processing stage of _transcribe_file_with_vosk on the chunks of
    \* one job: what the recognizer gives, the locals, what is emitted
    agg

mgr_vars == <<models_config, current_engine, model_type, current_model,
              current_device, is_recognizing, last>>
conc_vars == <<load_pc, decoded>>
ft_vars == <<is_transcribing, transcription_thread, temp_files, ffmpeg_process,
             disk, proc, caller, worker, njobs, job, call>>

lib_vars == <<shaping, plugins, reg, agg>>

vars == <<mgr_vars, conc_vars, ft_vars, lib_vars>>

NoneStr == "None"

-----------------------------------------------------------------------------
(* Model names.  get_available_engines lists the five names the            *)
(* configuration uses; "no_such_model" stands for a name absent from it.   *)

ModelNames ==
    {"vosk_small", "sherpa_onnx_int8", "sherpa_onnx_std",
     "sherpa_0626_int8", "sherpa_0626_std"}

RequestNames == ModelNames \cup {"no_such_model"}

\* model_type.startswith('sherpa')
StartsWithSherpa(name) ==
    name \in {"sherpa_onnx_int8", "sherpa_onnx_std",
              "sherpa_0626_int8", "sherpa_0626_std"}

\* "0626" in name
Has0626(name) == name \in {"sherpa_0626_int8", "sherpa_0626_std"}

\* "int8" in name
HasInt8(name) == name \in {"sherpa_onnx_int8", "sherpa_0626_int8"}

\* "std" in name
HasStd(name) == name \in {"sherpa_onnx_std", "sherpa_0626_std"}

(* Model paths, with the substring tests the code makes on them.           *)
VoskDir == "models/vosk-small"
SherpaDir == "models/sherpa-onnx"
Sherpa0626Dir == "models/sherpa-2023-06-26"
SherpaUnderVoskDir == "models/vosk/sherpa-onnx"

Paths == {"", VoskDir, SherpaDir, Sherpa0626Dir, SherpaUnderVoskDir}

\* "vosk" in model_path.lower()
PathHasVosk(path) == path \in {VoskDir, SherpaUnderVoskDir}

\* "0626" in model_dir or "2023-06-26" in model_dir
PathHas0626(path) == path = Sherpa0626Dir

(* Files of a model directory.  A file name is a tuple of its parts.       *)
FinalMdl == <<"am", "final.mdl">>
TokensTxt == <<"tokens.txt">>
SuffixPlain == "-epoch-99-avg-1"
SuffixChunk == "-epoch-99-avg-1-chunk-16-left-128"
BaseNames == <<"encoder", "decoder", "joiner">>

OnnxName(base, suffix, is_int8) ==
    <<base, suffix, IF is_int8 THEN ".int8.onnx" ELSE ".onnx">>

\* validate_model_files / _validate_model_path: the transducer file set
RequiredFiles(name, cfg) ==
    LET config_model_type == IF name \in DOMAIN cfg THEN cfg[name].type
                                                    ELSE "standard"
        is_int8 == config_model_type = "int8"
        suffix == IF Has0626(name) THEN SuffixChunk ELSE SuffixPlain
    IN  [i \in 1..3 |-> OnnxName(BaseNames[i], suffix, is_int8)]
            \o <<TokensTxt>>

\* os.path.exists(model_path) under the file system snapshot fs of the call
PathExists(path, fs) == path # "" /\ fs.exists

\* the directory layout test both validators share
VoskLayoutOk(fs) == FinalMdl \in fs.files

\* the file test both validators share
SherpaFilesOk(name, cfg, fs) ==
    \A i \in 1..4 : RequiredFiles(name, cfg)[i] \in fs.files

ValidateModelFiles(model_path, mt, cfg, fs) ==
    IF ~PathExists(model_path, fs) THEN FALSE
    ELSE IF mt = "vosk_small" \/ PathHasVosk(model_path) THEN VoskLayoutOk(fs)
    ELSE IF StartsWithSherpa(mt) THEN SherpaFilesOk(mt, cfg, fs)
    ELSE FALSE

ValidateModelPath(model_path, mt, cfg, fs) ==
    IF model_path = "" THEN FALSE
    ELSE IF ~PathExists(model_path, fs) THEN FALSE
    ELSE IF mt = "vosk_small" THEN VoskLayoutOk(fs)
    ELSE IF StartsWithSherpa(mt) THEN SherpaFilesOk(mt, cfg, fs)
    ELSE FALSE

-----------------------------------------------------------------------------
(* Engine adapters.  VoskASR and SherpaOnnxASR are collaborators; an       *)
(* adapter is the record of the attributes the manager reads.  engine_type *)
(* "" stands for an adapter without that attribute; ready says that the    *)
(* adapter finished its set-up (VoskASR: model and recognizer present,     *)
(* SherpaOnnxASR: setup() returned true).                                  *)

NoEngine ==
    [cls |-> "None", model_dir |-> "", has_config |-> FALSE, cfg_type |-> "",
     cfg_name |-> "", is_int8 |-> FALSE, engine_type |-> "", ready |-> FALSE]

VoskASR(model_path, ready) ==
    [cls |-> "VoskASR", model_dir |-> model_path, has_config |-> FALSE,
     cfg_type |-> "", cfg_name |-> "", is_int8 |-> FALSE, engine_type |-> "",
     ready |-> ready]

SherpaOnnxASR(model_path, type, name, ready) ==
    [cls |-> "SherpaOnnxASR", model_dir |-> model_path, has_config |-> TRUE,
     cfg_type |-> type, cfg_name |-> name, is_int8 |-> (type = "int8"),
     engine_type |-> "", ready |-> ready]

\* what building an adapter does: "ok"; "raise", the constructor raises;
\* "unready", the object is built and its set-up fails (VoskASR without
\* model or recognizer, SherpaOnnxASR.setup() returning false or raising)
BuildOutcomes == {"ok", "raise", "unready"}

-----------------------------------------------------------------------------
(* Execution contexts.                                                     *)

Emit(c, e) == [c EXCEPT !.ev = Append(@, e)]
Return(c, v) == [c EXCEPT !.ret = v]
Warn(c) == [c EXCEPT !.warned = TRUE]

\* get_current_engine_type, the match of model_type against a transducer
IsMatch(mt, e) ==
    /\ e.cls = "SherpaOnnxASR"
    /\ IF Has0626(mt)
       THEN /\ PathHas0626(e.model_dir)
            /\ \/ HasInt8(mt) /\ e.is_int8
               \/ ~HasInt8(mt) /\ ~e.is_int8
       ELSE \/ HasInt8(mt) /\ e.is_int8
            \/ HasStd(mt) /\ ~e.is_int8

\* get_current_engine_type, the type inferred from the adapter alone
InferEngineType(e) ==
    IF e.cls = "VoskASR" THEN "vosk_small"
    ELSE IF e.cls # "None" /\ e.engine_type # "" THEN e.engine_type
    ELSE IF e.cls = "SherpaOnnxASR" THEN
        IF e.has_config THEN
            IF e.cfg_name = "0626"
            THEN (IF e.cfg_type = "int8" THEN "sherpa_0626_int8"
                                         ELSE "sherpa_0626_std")
            ELSE (IF e.cfg_type = "int8" THEN "sherpa_onnx_int8"
                                         ELSE "sherpa_onnx_std")
        ELSE
            IF PathHas0626(e.model_dir)
            THEN (IF e.is_int8 THEN "sherpa_0626_int8" ELSE "sherpa_0626_std")
            ELSE (IF e.is_int8 THEN "sherpa_onnx_int8" ELSE "sherpa_onnx_std")
    ELSE NoneStr

\* an adapter that has an engine_type attribute gets it set to t
SetEngineTypeAttr(e, t) ==
    IF e.engine_type # "" THEN [e EXCEPT !.engine_type = t] ELSE e

GetCurrentEngineType(c) ==
    IF c.current_engine.cls = "VoskASR" THEN
        Return([c EXCEPT !.current_engine = SetEngineTypeAttr(@, "vosk_small"),
                         !.model_type = "vosk_small"], "vosk_small")
    ELSE
        LET declared == c.model_type # NoneStr /\ c.current_engine.cls # "None"
            engine_type == InferEngineType(c.current_engine)
            c1 == IF declared /\ ~IsMatch(c.model_type, c.current_engine)
                  THEN Warn(c) ELSE c
        IN  IF declared /\ IsMatch(c.model_type, c.current_engine)
            THEN Return(c, c.model_type)
            ELSE IF c.model_type # NoneStr /\ engine_type # NoneStr
                    /\ c.model_type # engine_type
            THEN Return(Warn(c1), c.model_type)
            ELSE IF c.model_type = NoneStr /\ engine_type # NoneStr
            THEN Return([c1 EXCEPT !.model_type = engine_type], engine_type)
            ELSE IF engine_type # NoneStr THEN Return(c1, engine_type)
            ELSE IF c.model_type # NoneStr THEN Return(c1, c.model_type)
            ELSE Return(c1, NoneStr)

-----------------------------------------------------------------------------
(* initialize_engine.                                                      *)

\* the type and name handed to SherpaOnnxASR for an engine type
SherpaModelType(engine_type) ==
    IF engine_type = "sherpa_0626_int8" THEN "int8"
    ELSE IF engine_type \in {"sherpa_0626_std", "sherpa_0626"} THEN "standard"
    ELSE IF engine_type = "sherpa_int8" THEN "int8" ELSE "standard"

SherpaModelName(engine_type) ==
    IF engine_type \in {"sherpa_0626_int8", "sherpa_0626_std", "sherpa_0626"}
    THEN "0626" ELSE ""

\* the closing part: compare the resolved type with the requested one,
\* emit model_loaded(True)
InitializeEngineTail(c, engine_type) ==
    LET c1 == GetCurrentEngineType(c)
        current_engine_type == c1.ret
        c2 == IF current_engine_type = engine_type THEN c1
              ELSE IF engine_type = "vosk_small"
              THEN [c1 EXCEPT !.current_engine =
                                  SetEngineTypeAttr(@, "vosk_small"),
                              !.model_type = "vosk_small"]
              ELSE IF c1.model_type # NoneStr /\ c1.model_type = engine_type
              THEN [c1 EXCEPT !.current_engine =
                                  SetEngineTypeAttr(@, c1.model_type)]
              ELSE [c1 EXCEPT !.model_type = current_engine_type]
    IN  Return(Emit(c2, "model_loaded(True)"), "True")

\* the assignment self.current_engine = VoskASR(path) / SherpaOnnxASR(path,
\* {type, name}).  VoskASR loads its model inside the constructor, so the
\* adapter is assigned as the constructor left it; SherpaOnnxASR is assigned
\* first and set up by the setup() call that follows.
AssignEngine(c, engine_type, path, build) ==
    IF engine_type \in {"vosk", "vosk_small"}
    THEN [c EXCEPT !.current_engine = VoskASR(path, build = "ok")]
    ELSE [c EXCEPT !.current_engine =
             SherpaOnnxASR(path, SherpaModelType(engine_type),
                           SherpaModelName(engine_type), FALSE)]

\* what follows the assignment: the check of the VoskASR fields or the
\* setup() call, then the closing part
SetUpEngine(c, engine_type, build) ==
    IF build # "ok" THEN Return(c, "False")
    ELSE IF engine_type \in {"vosk", "vosk_small"}
    THEN InitializeEngineTail(
             [c EXCEPT !.current_engine.engine_type = "vosk_small"],
             engine_type)
    ELSE InitializeEngineTail([c EXCEPT !.current_engine.ready = TRUE],
                              engine_type)

\* the type initialize_engine works on: the model type the user chose wins
EffectiveEngineType(c, requested) ==
    IF c.model_type # NoneStr /\ c.model_type # requested
    THEN c.model_type ELSE requested

InitializeEngine(c, requested, cfg, fs, build) ==
    LET engine_type == EffectiveEngineType(c, requested) IN
    IF engine_type \notin DOMAIN cfg THEN Return(c, "False")
    ELSE
    LET model_config == cfg[engine_type] IN
    IF ~model_config.enabled THEN Return(c, "False")
    ELSE IF engine_type \in {"vosk", "vosk_small"}
            \/ StartsWithSherpa(engine_type) THEN
        IF ~PathExists(model_config.path, fs) THEN Return(c, "False")
        ELSE IF ~ValidateModelPath(model_config.path, engine_type, cfg, fs)
        THEN Return(c, "False")
        ELSE IF build = "raise" THEN Return(c, "False")
        ELSE SetUpEngine(AssignEngine(c, engine_type, model_config.path, build),
                         engine_type, build)
    ELSE Return(c, "False")

-----------------------------------------------------------------------------
(* load_model.                                                             *)

\* the checks load_model makes before it changes any field
LoadModelChecks(name, cfg, fs) ==
    /\ name \in DOMAIN cfg
    /\ cfg[name].path # ""
    /\ PathExists(cfg[name].path, fs)
    /\ ValidateModelFiles(cfg[name].path, name, cfg, fs)

\* "更新当前模型信息": model_type is set before the engine is initialized
LoadModelDeclare(c, name) ==
    [c EXCEPT !.model_type = name]

\* what follows a successful initialize_engine
LoadModelFinish(c, name) ==
    Return(Emit(Emit([c EXCEPT !.current_model = TRUE],
                     "model_loaded(True)"), "status_updated"), "True")

\* what load_model does with the result of initialize_engine
LoadModelAfterInit(c, name) ==
    IF c.ret # "True" THEN Return(c, "False")
    ELSE LoadModelFinish(c, name)

LoadModel(c, name, cfg, fs, build) ==
    IF ~LoadModelChecks(name, cfg, fs) THEN Return(c, "False")
    ELSE LoadModelAfterInit(
             InitializeEngine(LoadModelDeclare(c, name), name, cfg, fs, build),
             name)

-----------------------------------------------------------------------------
(* transcribe, set_audio_device, start_recognition, stop_recognition.      *)

\* what the adapter's transcribe does: a text, no text, or a fault
DecodeOutcomes == {"text", "None", "raise"}

\* a transcribe without the except clause: the fault of the adapter comes
\* out of the call
TranscribeUnguarded(c, decode) ==
    IF c.current_engine.cls = "None" THEN Return(c, NoneStr)
    ELSE Return(c, decode)

Transcribe(c, decode) ==
    IF c.current_engine.cls = "None" THEN Return(c, NoneStr)
    ELSE IF decode = "raise" THEN Return(c, NoneStr)
    ELSE Return(c, decode)

-----------------------------------------------------------------------------
(* transcribe_file.  A text is the sequence of its words and marks.        *)

NoText == <<>>

\* what the adapter's transcribe_file returns when it returns a text
Transcript ==
    <<"w", "h", "a", "t", " ", "w", "a", "s", " ", "s", "a", "i", "d">>

\* the head of the texts _transcribe_file_with_manager emits ("[使用 ...")
\* and of the partial results
HeaderMark == "[header"
PartialMark == "PARTIAL:"

\* question_starters
QuestionStarters ==
    {<<"w", "h", "a", "t">>,
     <<"w", "h", "o">>,
     <<"w", "h", "e", "r", "e">>,
     <<"w", "h", "e", "n">>,
     <<"w", "h", "y">>,
     <<"h", "o", "w">>,
     <<"i", "s">>,
     <<"a", "r", "e">>,
     <<"d", "o">>,
     <<"d", "o", "e", "s">>,
     <<"d", "i", "d">>,
     <<"c", "a", "n">>,
     <<"c", "o", "u", "l", "d">>,
     <<"w", "i", "l", "l">>,
     <<"w", "o", "u", "l", "d">>}

Punctuation == {".", "?", "!", ",", ";", ":", "-"}

LowerCase ==
    <<"a", "b", "c", "d", "e", "f", "g", "h", "i", "j", "k", "l", "m",
      "n", "o", "p", "q", "r", "s", "t", "u", "v", "w", "x", "y", "z">>
UpperCase ==
    <<"A", "B", "C", "D", "E", "F", "G", "H", "I", "J", "K", "L", "M",
      "N", "O", "P", "Q", "R", "S", "T", "U", "V", "W", "X", "Y", "Z">>

\* a capitalisation that leaves the character as it is
SameChar(ch) == ch

\* str.upper() and str.lower() on one character
Upper(ch) ==
    IF \E k \in 1..Len(LowerCase) : LowerCase[k] = ch
    THEN UpperCase[CHOOSE k \in 1..Len(LowerCase) : LowerCase[k] = ch]
    ELSE ch
Lower(ch) ==
    IF \E k \in 1..Len(UpperCase) : UpperCase[k] = ch
    THEN LowerCase[CHOOSE k \in 1..Len(UpperCase) : UpperCase[k] = ch]
    ELSE ch

\* words[0].lower()
LowerWord(word) == [k \in 1..Len(word) |-> Lower(word[k])]

\* text[0].upper() + text[1:]
Capitalize(text) == [text EXCEPT ![1] = Upper(@)]

\* a punctuation that appends a full stop to whatever text it is given
PunctuateAlways(text) == Append(text, ".")

\* if text[-1] not in [...]: text += '.'
Punctuate(text) ==
    IF text[Len(text)] \in Punctuation THEN text ELSE Append(text, ".")

\* text.split()[0]: the characters from the first one that is not a space
\* up to the next space; <<>> for a text of spaces
RECURSIVE FirstWord(_)
FirstWord(text) ==
    IF text = <<>> THEN <<>>
    ELSE IF Head(text) = " " THEN FirstWord(Tail(text))
    ELSE IF Len(text) = 1 \/ text[2] = " " THEN <<Head(text)>>
    ELSE <<Head(text)>> \o FirstWord(Tail(text))

\* FileTranscriber._format_text: first letter in upper case, a full stop
\* at the end unless the text ends in punctuation, then a question mark
\* for the full stop when the first word of that text is a question word
FormatText(text) ==
    IF text = NoText THEN text
    ELSE LET dotted == Punctuate(Capitalize(text))
             words0 == FirstWord(dotted)
         IN  IF /\ words0 # <<>>
                /\ LowerWord(words0) \in QuestionStarters
                /\ dotted[Len(dotted)] = "."
             THEN [dotted EXCEPT ![Len(dotted)] = "?"]
             ELSE dotted

\* _transcribe_file_with_manager: the text it emits with new_text for the
\* result of recognizer.transcribe_file
FullText(result) ==
    IF result # NoText THEN <<HeaderMark, "result">> \o FormatText(result)
    ELSE <<HeaderMark, "failed">>

\* the worker of the FileTranscriber that transcribe_file starts on the
\* adapter: the adapter has a transcribe_file method, so the worker calls
\* it on the file and emits one text; a failed probe starts no worker, a
\* fault in the adapter goes to the except clause of the thread
PipelineNewTexts(file) ==
    IF ~file.probe_ok \/ file.outcome = "raise" \/ file.timed_out THEN <<>>
    ELSE <<FullText(IF file.outcome = "text" THEN Transcript ELSE NoText)>>

\* on_new_text, the slot transcribe_file connects to new_text
OnNewText(transcription_result, text) ==
    IF text # NoText /\ text[1] \notin {HeaderMark, PartialMark}
    THEN Append(transcription_result, text)
    ELSE transcription_result

RECURSIVE CollectTexts(_, _)
CollectTexts(transcription_result, texts) ==
    IF texts = <<>> THEN transcription_result
    ELSE CollectTexts(OnNewText(transcription_result, Head(texts)),
                      Tail(texts))

\* " ".join(transcription_result)
RECURSIVE JoinTexts(_)
JoinTexts(transcription_result) ==
    IF transcription_result = <<>> THEN NoText
    ELSE IF Len(transcription_result) = 1 THEN Head(transcription_result)
    ELSE Head(transcription_result) \o <<" ">>
             \o JoinTexts(Tail(transcription_result))

\* a transcribe_file call returns a text, or None for no text
ReturnText(c, text) ==
    [c EXCEPT !.text = text,
              !.ret = IF text = NoText THEN NoneStr ELSE "text"]

\* the file a transcribe_file call is given and what it meets: whether
\* the adapter has a transcribe_file method, the file exists and is named
\* .wav, what the adapter's transcribe_file does, and for the pipeline
\* whether ffprobe gave a duration and the wait of 300 s ran out
NoFileCall ==
    [has_transcribe_file |-> FALSE, exists |-> FALSE, wav |-> FALSE,
     outcome |-> NoneStr, probe_ok |-> FALSE, timed_out |-> FALSE]

FileCalls ==
    {f \in [has_transcribe_file : BOOLEAN, exists : BOOLEAN, wav : BOOLEAN,
            outcome : {"text", "None", "raise"}, probe_ok : BOOLEAN,
            timed_out : BOOLEAN] :
        /\ ~f.has_transcribe_file => ~f.exists
        /\ ~f.exists => ~f.wav /\ f.outcome = NoneStr /\ ~f.probe_ok
        /\ f.wav => ~f.probe_ok
        /\ ~f.probe_ok => ~f.timed_out
        /\ ~f.probe_ok => (f.wav \/ f.outcome = NoneStr)}

\* the part of transcribe_file that follows the checks of the engine
TranscribeFileRun(c, engine_type, file) ==
    IF ~file.has_transcribe_file THEN ReturnText(c, NoText)
    ELSE IF ~file.exists THEN ReturnText(c, NoText)
    ELSE IF engine_type = "vosk_small" /\ ~file.wav
    THEN ReturnText(c, JoinTexts(CollectTexts(<<>>, PipelineNewTexts(file))))
    ELSE IF file.outcome = "text" THEN ReturnText(c, Transcript)
    ELSE ReturnText(c, NoText)

TranscribeFile(c, cfg, fs, build, file) ==
    LET c0 == IF c.current_engine.cls = "None"
              THEN InitializeEngine(c, IF c.model_type # NoneStr
                                       THEN c.model_type ELSE "vosk_small",
                                    cfg, fs, build)
              ELSE c
    IN  IF c0.current_engine.cls = "None" THEN ReturnText(c0, NoText)
        ELSE
        LET c1 == GetCurrentEngineType(c0)
            engine_type == c1.ret
        IN  IF c1.model_type # NoneStr /\ engine_type # NoneStr
               /\ c1.model_type # engine_type
            THEN LET c2 == InitializeEngine(c1, c1.model_type, cfg, fs, build)
                 IN  IF c2.ret # "True" THEN ReturnText(c2, NoText)
                     ELSE LET c3 == GetCurrentEngineType(c2) IN
                          IF c3.ret # c3.model_type
                          THEN ReturnText(c3, NoText)
                          ELSE TranscribeFileRun(c3, c3.ret, file)
            ELSE TranscribeFileRun(c1, engine_type, file)

-----------------------------------------------------------------------------
(* set_audio_device, start_recognition, stop_recognition.                  *)

Devices == {"mic_0"}

SetAudioDevice(c, device) ==
    IF device = NoneStr
    THEN Return(Emit(c, "error_occurred"), "False")
    ELSE Return(Emit([c EXCEPT !.current_device = device], "status_updated"),
                "True")

\* a start_recognition that does not look at the device
StartRecognitionAnyDevice(c) ==
    IF c.current_engine.cls = "None"
    THEN Return(Emit(c, "error_occurred"), "False")
    ELSE IF c.is_recognizing THEN Return(c, "True")
    ELSE Return(Emit(Emit([c EXCEPT !.is_recognizing = TRUE],
                          "recognition_started"), "status_updated"), "True")

\* a start_recognition that looks neither at the adapter nor at the device
StartRecognitionUnguarded(c) ==
    IF c.is_recognizing THEN Return(c, "True")
    ELSE Return(Emit(Emit([c EXCEPT !.is_recognizing = TRUE],
                          "recognition_started"), "status_updated"), "True")

StartRecognition(c) ==
    IF c.current_engine.cls = "None"
    THEN Return(Emit(c, "error_occurred"), "False")
    ELSE IF c.current_device = NoneStr
    THEN Return(Emit(c, "error_occurred"), "False")
    ELSE IF c.is_recognizing THEN Return(c, "True")
    ELSE Return(Emit(Emit([c EXCEPT !.is_recognizing = TRUE],
                          "recognition_started"), "status_updated"), "True")

\* a stop_recognition that does not look at is_recognizing
StopRecognitionAnyTime(c) ==
    Return(Emit(Emit([c EXCEPT !.is_recognizing = FALSE],
                     "recognition_stopped"), "status_updated"), "True")

StopRecognition(c) ==
    IF ~c.is_recognizing THEN Return(c, "True")
    ELSE Return(Emit(Emit([c EXCEPT !.is_recognizing = FALSE],
                          "recognition_stopped"), "status_updated"), "True")

-----------------------------------------------------------------------------
(* The configuration (config_manager.get_all_models()) and the file system *)
(* a call finds under the model path.                                      *)

SherpaNames == {n \in ModelNames : StartsWithSherpa(n)}

BaseConfig ==
    [n \in ModelNames |->
        [path |-> IF n = "vosk_small" THEN VoskDir
                  ELSE IF Has0626(n) THEN Sherpa0626Dir ELSE SherpaDir,
         enabled |-> TRUE,
         type |-> IF HasInt8(n) THEN "int8" ELSE "standard"]]

\* the base configuration, and the base with one descriptor changed:
\* disabled, without a path, a transducer below a directory named after
\* the other family, a 0626 model in a directory without the version tag
ConfigVariants ==
    {BaseConfig}
    \cup {[BaseConfig EXCEPT ![n].enabled = FALSE] :
              n \in {"vosk_small", "sherpa_onnx_std"}}
    \cup {[BaseConfig EXCEPT ![n].path = ""] : n \in {"sherpa_0626_std"}}
    \cup {[BaseConfig EXCEPT ![n].path = SherpaUnderVoskDir] :
              n \in {"sherpa_onnx_int8", "sherpa_onnx_std"}}
    \cup {[BaseConfig EXCEPT ![n].path = SherpaDir] :
              n \in {"sherpa_0626_int8"}}

\* config_manager.get_default_model(): no default, or a configured name
DefaultModels == {NoneStr, "vosk_small", "sherpa_onnx_int8"}

TransducerFiles(suffix, is_int8) ==
    {OnnxName(BaseNames[i], suffix, is_int8) : i \in 1..3} \cup {TokensTxt}

\* both precisions of one version, as a model directory usually holds them
TransducerDir(suffix) ==
    TransducerFiles(suffix, TRUE) \cup TransducerFiles(suffix, FALSE)

Fs(exists, files) == [exists |-> exists, files |-> files]

FsMissing == Fs(FALSE, {})

FsSnapshots ==
    {FsMissing,
     Fs(TRUE, {FinalMdl}),
     Fs(TRUE, TransducerDir(SuffixPlain)),
     Fs(TRUE, TransducerDir(SuffixChunk)),
     Fs(TRUE, TransducerDir(SuffixPlain) \ {TokensTxt}),
     Fs(TRUE, {FinalMdl} \cup TransducerDir(SuffixPlain))}

-----------------------------------------------------------------------------
(* The file transcription pipeline (FileTranscriber): its data.            *)

\* the jobs start_transcription accepts in one run, and the chunks of 4000
\* bytes the second ffmpeg process delivers at most
MaxJobs == 2
MaxChunks == 2

Jobs == 1..MaxJobs

\* None, for self.transcription_thread and self.ffmpeg_process
NoHandle == 0

\* the recognizer of a job: an object with a transcribe_file method (the
\* manager) or a Vosk recognizer
Routes == {"vosk", "manager"}

\* the duration ffprobe reports, counted in chunks of 4000 bytes (0.125 s
\* of 16 kHz 16-bit audio); a header may give 0 for a file that holds audio
Durations == {0, 1}

\* the ffmpeg processes of job j: the conversion to WAV and the extraction
ConvProc(j) == 2 * j - 1
ReadProc(j) == 2 * j
Procs == 1..(2 * MaxJobs)

Min(a, b) == IF a <= b THEN a ELSE b

Range(seq) == {seq[k] : k \in 1..Len(seq)}

\* the percentage of the reading stage without its cap of 30
ReadProgressUncapped(position, duration) ==
    20 + (position * 30) \div duration

\* the percentage of the reading stage after position chunks were read
ReadProgress(position, duration) ==
    20 + Min(30, (position * 30) \div duration)

\* the percentage of the processing stage at chunk i of total_chunks
ProcessProgress(i, total_chunks) ==
    50 + Min(49, (i * 49) \div total_chunks)

\* terminate(), wait(timeout), kill() on a process
Terminate(state) == IF state = "running" THEN "exited" ELSE state

\* a worker thread: where it is, its arguments (recognizer, duration) and
\* its locals: whether _convert_to_wav returned a file, the chunks read,
\* the index in the processing loop; the last percentage it emitted (0
\* before the first) and how its body ended
NoWorker ==
    [pc |-> "none", route |-> "vosk", duration |-> 0, wav |-> FALSE,
     n |-> 0, i |-> 0, progress |-> 0, result |-> "none"]

\* what was observed of a job: the transcription_finished events; whether
\* every percentage was within 0..100 and not below the one before it;
\* whether the extraction stage was entered and a chunk was fed to the
\* recognizer; the stage the worker was in when stop was called; the
\* error_occurred events; whether a chunk was fed to the recognizer after
\* stop was called on the job past its conversion, whether the worker
\* raised on a handle that was None, and whether progress 100 was emitted
\* after the processing loop had found the flag cleared
NoJob ==
    [finished |-> 0, progress_ok |-> TRUE, streaming |-> FALSE,
     fed |-> FALSE, stopped_at |-> "none", errors |-> 0,
     fed_after_stop |-> FALSE, handle_fault |-> FALSE,
     done_after_break |-> FALSE]

\* progress_updated.emit(value) by the worker w of a job
EmitProgress(w, value) == [w EXCEPT !.progress = value]

\* the percentage value follows the percentages the worker w emitted
ProgressOk(w, value) == value \in 0..100 /\ value >= w.progress

EmitFinished(jobs, j) == [jobs EXCEPT ![j].finished = @ + 1]

\* error_occurred.emit(message) in the course of job j
EmitError(jobs, j) == [jobs EXCEPT ![j].errors = @ + 1]

\* self.ffmpeg_process is None where the worker of job j uses it: the
\* AttributeError goes to an except clause that emits error_occurred
HandleFault(jobs, j) == [EmitError(jobs, j) EXCEPT ![j].handle_fault = TRUE]

\* recognizer.AcceptWaveform(chunk) in the course of job j
Feed(jobs, j) ==
    [jobs EXCEPT ![j].fed = TRUE,
                 ![j].fed_after_stop = @ \/ jobs[j].stopped_at = "later"]

\* the processing loop, "if not self.is_transcribing: break"
Breaks(flag) == ~flag

\* the latest call made on the pipeline: the method, what it returned
\* ("running" until it returns), whether is_transcribing was set when it
\* was entered, whether it left a field of the object other than it found
\* it, whether it ran _cleanup_temp_files, the error_occurred events it
\* emitted, and how the probe of a start went ("skipped" when the call
\* returned before it)
NoCall ==
    [op |-> "none", ret |-> "None", active |-> FALSE, changed |-> FALSE,
     cleaned |-> FALSE, errors |-> 0, probe |-> "skipped"]

FtInit ==
    /\ is_transcribing = FALSE
    /\ transcription_thread = NoHandle
    /\ temp_files = <<>>
    /\ ffmpeg_process = NoHandle
    /\ disk = {}
    /\ proc = [p \in Procs |-> "none"]
    /\ caller = [pc |-> "idle", job |-> NoHandle]
    /\ worker = [j \in Jobs |-> NoWorker]
    /\ njobs = 0
    /\ job = [j \in Jobs |-> NoJob]
    /\ call = NoCall

-----------------------------------------------------------------------------
(* The manager as a state machine: one action per method call.             *)

MgrFields ==
    [current_engine |-> current_engine, model_type |-> model_type,
     current_model |-> current_model, current_device |-> current_device,
     is_recognizing |-> is_recognizing]

\* the context a call starts from
MgrCtx ==
    [current_engine |-> current_engine, model_type |-> model_type,
     current_model |-> current_model, current_device |-> current_device,
     is_recognizing |-> is_recognizing,
     ev |-> <<>>, warned |-> FALSE, ret |-> NoneStr, text |-> NoText]

\* the fields take their values from the context a call ended in
Store(c) ==
    /\ current_engine' = c.current_engine
    /\ model_type' = c.model_type
    /\ current_model' = c.current_model
    /\ current_device' = c.current_device
    /\ is_recognizing' = c.is_recognizing

\* a call returns: the fields are stored and the call is recorded, with
\* the file call it was given (NoFileCall but for transcribe_file)
CommitFile(c, op, arg, fs, build, file) ==
    /\ Store(c)
    /\ last' = [op |-> op, arg |-> arg, fs |-> fs, build |-> build,
                ret |-> c.ret, ev |-> c.ev, warned |-> c.warned,
                text |-> c.text, file |-> file, pre |-> MgrFields]
    /\ UNCHANGED <<models_config, ft_vars, lib_vars>>

Commit(c, op, arg, fs, build) ==
    CommitFile(c, op, arg, fs, build, NoFileCall)

MgrInit ==
    /\ models_config \in ConfigVariants
    /\ current_engine = NoEngine
    /\ model_type \in DefaultModels
    /\ current_model = FALSE
    /\ current_device = NoneStr
    /\ is_recognizing = FALSE
    /\ last = [op |-> "__init__", arg |-> NoneStr, fs |-> FsMissing,
               build |-> NoneStr, ret |-> NoneStr, ev |-> <<>>,
               warned |-> FALSE, text |-> NoText, file |-> NoFileCall,
               pre |-> [current_engine |-> NoEngine, model_type |-> model_type,
                        current_model |-> FALSE, current_device |-> NoneStr,
                        is_recognizing |-> FALSE]]

ConcInit ==
    /\ load_pc = "idle"
    /\ decoded = [engine |-> NoEngine, load_pc |-> "idle"]

-----------------------------------------------------------------------------
(* The texts given to _format_text, and the plugin registry.               *)

\* the texts are of at most MaxLen characters of Chars
MaxLen == 5
Chars == {"i", "s", "t", "I", " ", ".", "?", "-"}
Texts == UNION {[1..n -> Chars] : n \in 0..MaxLen}

NoShaping == [input |-> NoText, output |-> NoText, done |-> FALSE]

\* the names plugins are registered and asked for under, and the classes:
\* the two built-in ones and one registered by a caller
FamilyNames == {"vosk_small", "sherpa_onnx", "sherpa_0626", "custom"}
AskedNames == FamilyNames \cup {"no_such_family"}
PluginClasses == {"VoskPlugin", "SherpaOnnxPlugin", "CustomPlugin"}

\* what the constructor of a plugin class does
PluginBuilds == {"ok", "raise"}

NoPlugins == [n \in {} |-> NoneStr]

\* a register_plugin that keeps the class a name already has
RegisterPluginKeepFirst(registered, name, plugin_class) ==
    [n \in DOMAIN registered \cup {name} |->
        IF n \in DOMAIN registered THEN registered[n] ELSE plugin_class]

\* register_plugin: self._plugins[name] = plugin_class
RegisterPlugin(registered, name, plugin_class) ==
    [n \in DOMAIN registered \cup {name} |->
        IF n = name THEN plugin_class ELSE registered[n]]

\* _register_builtin_plugins
RegisterBuiltinPlugins(registered) ==
    RegisterPlugin(
        RegisterPlugin(
            RegisterPlugin(registered, "vosk_small", "VoskPlugin"),
            "sherpa_onnx", "SherpaOnnxPlugin"),
        "sherpa_0626", "SherpaOnnxPlugin")

\* get_plugin_class: self._plugins.get(name)
GetPluginClass(registered, name) ==
    IF name \in DOMAIN registered THEN registered[name] ELSE NoneStr

\* create_plugin: what it returns (None or a plugin), the class the
\* plugin is an instance of, and what comes with a None: nothing
CreatePlugin(registered, name, build) ==
    LET plugin_class == GetPluginClass(registered, name) IN
    IF plugin_class = NoneStr
    THEN [ret |-> NoneStr, made |-> NoneStr, kind |-> NoneStr,
          cause |-> NoneStr]
    ELSE IF build = "raise"
    THEN [ret |-> NoneStr, made |-> NoneStr, kind |-> NoneStr,
          cause |-> NoneStr]
    ELSE [ret |-> "plugin", made |-> plugin_class, kind |-> NoneStr,
          cause |-> NoneStr]

\* PluginRegistry.__init__
RegInit ==
    /\ plugins = RegisterBuiltinPlugins(NoPlugins)
    /\ reg = [op |-> "__init__", name |-> NoneStr, plugin_class |-> NoneStr,
              build |-> NoneStr, ret |-> NoneStr, made |-> NoneStr,
              kind |-> NoneStr, cause |-> NoneStr, pre |-> NoPlugins,
              recent |-> [n \in {"vosk_small", "sherpa_onnx", "sherpa_0626"}
                            |-> IF n = "vosk_small" THEN "VoskPlugin"
                                ELSE "SherpaOnnxPlugin"]]

\* the chunks of a job in the processing stage are at most MaxResults
MaxResults == 3

\* result['text'] and final_result['text'] as the recognizer gives them
ResultTexts ==
    {NoText, <<" ">>, <<"i", "s">>, <<"i", "t">>, <<"i", "t", " ">>}

\* what the recognizer does with a chunk: AcceptWaveform returns false, or
\* true and Result() holds a text
ChunkOutcomes ==
    {[accepted |-> FALSE, text |-> NoText]}
    \cup {[accepted |-> TRUE, text |-> text] : text \in ResultTexts}

ChunkSeqs == UNION {[1..n -> ChunkOutcomes] : n \in 0..MaxResults}

\* str.strip()
RECURSIVE Strip(_)
Strip(text) ==
    IF text = <<>> THEN text
    ELSE IF Head(text) = " " THEN Strip(Tail(text))
    ELSE IF text[Len(text)] = " " THEN Strip(SubSeq(text, 1, Len(text) - 1))
    ELSE text

\* a loop body that puts the newest result first
AcceptChunkNewestFirst(all_results, chunk) ==
    IF chunk.accepted /\ Strip(chunk.text) # NoText
    THEN <<Strip(chunk.text)>> \o all_results
    ELSE all_results

\* the body of the processing loop: AcceptWaveform, Result, append
AcceptChunk(all_results, chunk) ==
    IF chunk.accepted /\ Strip(chunk.text) # NoText
    THEN Append(all_results, Strip(chunk.text))
    ELSE all_results

\* FinalResult and the append of its text
AcceptFinal(all_results, final) ==
    IF Strip(final) # NoText THEN Append(all_results, Strip(final))
    ELSE all_results

\* the text emitted with new_text every fifth result
InterimText(all_results) ==
    <<HeaderMark, "running">> \o FormatText(JoinTexts(all_results))

\* the text emitted at the end: the combined text under the header
\* "转录结果", or with no result the text under the header "转录失败"
FinalText(all_results) ==
    IF all_results # <<>>
    THEN <<HeaderMark, "result">> \o FormatText(JoinTexts(all_results))
    ELSE <<HeaderMark, "failed">>

\* the status emitted at the end
FinalStatus(all_results) ==
    IF all_results # <<>> THEN "complete" ELSE "complete_no_result"

NoAgg ==
    [chunks |-> <<>>, final |-> NoText, i |-> 0, all_results |-> <<>>,
     pc |-> "loop", new_text |-> NoText, progress |-> 50,
     status |-> "processing", errors |-> 0]

LibInit == shaping = NoShaping /\ RegInit /\ agg = NoAgg

Init == MgrInit /\ ConcInit /\ FtInit /\ LibInit

\* load_model(name) gets as far as constructing an adapter
ReachesConstructor(name, cfg, fs) ==
    /\ LoadModelChecks(name, cfg, fs)
    /\ cfg[name].enabled
    /\ ValidateModelPath(cfg[name].path, name, cfg, fs)

CallLoadModel ==
    \E name \in RequestNames, fs \in FsSnapshots :
    \E build \in IF ReachesConstructor(name, models_config, fs)
                 THEN BuildOutcomes ELSE {NoneStr} :
        /\ Commit(LoadModel(MgrCtx, name, models_config, fs, build),
                  "load_model", name, fs, build)
        /\ UNCHANGED <<conc_vars, lib_vars>>

CallGetCurrentEngineType ==
    /\ Commit(GetCurrentEngineType(MgrCtx), "get_current_engine_type",
              NoneStr, FsMissing, NoneStr)
    /\ UNCHANGED <<conc_vars, lib_vars>>

CallTranscribe ==
    \E decode \in DecodeOutcomes :
        /\ Commit(Transcribe(MgrCtx, decode), "transcribe", decode,
                  FsMissing, NoneStr)
        /\ UNCHANGED <<conc_vars, lib_vars>>

\* transcribe_file(file_path); the file system under the model path and
\* the construction of an adapter matter when no adapter is loaded
CallTranscribeFile ==
    \E file \in FileCalls :
    \E fs \in IF current_engine.cls = "None" THEN FsSnapshots
                                              ELSE {FsMissing} :
    \E build \in IF current_engine.cls = "None" THEN BuildOutcomes
                                                 ELSE {NoneStr} :
        /\ CommitFile(TranscribeFile(MgrCtx, models_config, fs, build, file),
                      "transcribe_file", NoneStr, fs, build, file)
        /\ UNCHANGED <<conc_vars, lib_vars>>

CallSetAudioDevice ==
    \E device \in Devices \cup {NoneStr} :
        /\ Commit(SetAudioDevice(MgrCtx, device), "set_audio_device", device,
                  FsMissing, NoneStr)
        /\ UNCHANGED <<conc_vars, lib_vars>>

CallStartRecognition ==
    /\ Commit(StartRecognition(MgrCtx), "start_recognition", NoneStr,
              FsMissing, NoneStr)
    /\ UNCHANGED <<conc_vars, lib_vars>>

CallStopRecognition ==
    /\ Commit(StopRecognition(MgrCtx), "stop_recognition", NoneStr,
              FsMissing, NoneStr)
    /\ UNCHANGED <<conc_vars, lib_vars>>

Next ==
    \/ CallLoadModel
    \/ CallGetCurrentEngineType
    \/ CallTranscribe
    \/ CallSetAudioDevice
    \/ CallStartRecognition
    \/ CallStopRecognition

Spec == Init /\ [][Next]_vars

\* the calls that load, resolve and transcribe files, without the device
\* and the live recognition
NextFile ==
    \/ CallLoadModel
    \/ CallGetCurrentEngineType
    \/ CallTranscribeFile

SpecFile == Init /\ [][NextFile]_vars

-----------------------------------------------------------------------------
(* load_model against a second thread that calls transcribe (the worker of *)
(* the transcription pipeline).  The manager holds no lock: load_model is  *)
(* cut where initialize_engine has assigned self.current_engine and has    *)
(* not yet looked at the adapter's set-up, and transcribe may run there.   *)

\* thread 1 enters load_model and runs to the assignment of the adapter; a
\* call that fails before it builds an adapter runs to its end
ConcLoadBegin ==
    \E name \in RequestNames, fs \in FsSnapshots :
    \E build \in IF ReachesConstructor(name, models_config, fs)
                 THEN BuildOutcomes ELSE {NoneStr} :
        /\ load_pc = "idle"
        /\ IF ReachesConstructor(name, models_config, fs) /\ build # "raise"
           THEN /\ Store(AssignEngine(LoadModelDeclare(MgrCtx, name), name,
                                      models_config[name].path, build))
                /\ last' = [op |-> "load_model", arg |-> name, fs |-> fs,
                            build |-> build, ret |-> "running", ev |-> <<>>,
                            warned |-> FALSE, text |-> NoText,
                            file |-> NoFileCall, pre |-> MgrFields]
                /\ load_pc' = "assigned"
                /\ UNCHANGED <<models_config, ft_vars, lib_vars>>
           ELSE /\ Commit(LoadModel(MgrCtx, name, models_config, fs, build),
                          "load_model", name, fs, build)
                /\ load_pc' = "idle"
        /\ UNCHANGED decoded

\* thread 1 runs the rest of load_model: the set-up of the adapter, the
\* closing part of initialize_engine, the signals
ConcLoadFinish ==
    /\ load_pc = "assigned"
    /\ LET c == LoadModelAfterInit(
                    SetUpEngine(MgrCtx, last.arg, last.build), last.arg)
       IN  /\ Store(c)
           /\ last' = [last EXCEPT !.ret = c.ret, !.ev = c.ev,
                                   !.warned = c.warned]
    /\ load_pc' = "idle"
    /\ UNCHANGED <<models_config, decoded, ft_vars, lib_vars>>

\* thread 2 calls transcribe; decoded keeps the adapter whose transcribe it
\* called and where thread 1 was
ConcTranscribe ==
    \E decode \in DecodeOutcomes :
        /\ Store(Transcribe(MgrCtx, decode))
        /\ decoded' = [engine |-> current_engine, load_pc |-> load_pc]
        /\ UNCHANGED <<models_config, last, load_pc, ft_vars, lib_vars>>

NextConc ==
    \/ ConcLoadBegin
    \/ ConcLoadFinish
    \/ ConcTranscribe

\* the two threads are run on the base configuration
InitConc == Init /\ models_config = BaseConfig

SpecConc == InitConc /\ [][NextConc]_vars

-----------------------------------------------------------------------------
(* The file transcription pipeline: the calling thread.                    *)
(* start_transcription and stop_transcription are called by one thread,    *)
(* one after the other; the workers run between their steps.               *)

\* the fields of the FileTranscriber object, and the worker threads
PipelineFields ==
    <<is_transcribing, transcription_thread, temp_files, ffmpeg_process,
      worker>>

\* a start that goes on whatever the flag says
NeverTranscribing == FALSE

\* start_transcription, "if self.is_transcribing": the call is refused
AlreadyTranscribing == is_transcribing

\* a probe failure that leaves the flag as line 70 set it
FlagLeftSet == TRUE

\* the except clause of the probe: self.is_transcribing = False
FlagAfterProbeFailure == FALSE

\* start_transcription(file_path, recognizer), from its entry to its
\* return: the flag test, the file test, the probe, the start of the worker
StartTranscription ==
    \E file_exists \in BOOLEAN, probe_ok \in BOOLEAN,
       route \in Routes, duration \in Durations :
        /\ caller.pc = "idle"
        /\ njobs < MaxJobs
        /\ IF AlreadyTranscribing \/ ~file_exists
           THEN UNCHANGED <<is_transcribing, transcription_thread, worker,
                            njobs, job>>
           ELSE LET j == njobs + 1 IN
                /\ njobs' = j
                /\ IF probe_ok
                   THEN /\ is_transcribing' = TRUE
                        /\ transcription_thread' = j
                        /\ worker' = [worker EXCEPT ![j] =
                               [NoWorker EXCEPT
                                   !.pc = IF route = "manager"
                                          THEN "mg_transcribe"
                                          ELSE "cv_mkstemp",
                                   !.route = route,
                                   !.duration = duration,
                                   !.result = "running"]]
                        /\ UNCHANGED job
                   ELSE /\ is_transcribing' = FlagAfterProbeFailure
                        /\ job' = EmitFinished(EmitError(job, j), j)
                        /\ UNCHANGED <<transcription_thread, worker>>
        /\ UNCHANGED <<temp_files, ffmpeg_process, disk, proc, caller>>
        /\ call' = [op |-> "start",
                    ret |-> IF ~AlreadyTranscribing /\ file_exists /\ probe_ok
                            THEN "True" ELSE "False",
                    active |-> is_transcribing,
                    changed |-> PipelineFields' # PipelineFields,
                    cleaned |-> FALSE,
                    errors |-> IF AlreadyTranscribing THEN 0
                               ELSE IF file_exists /\ probe_ok THEN 0
                               ELSE 1,
                    probe |-> IF AlreadyTranscribing \/ ~file_exists
                              THEN "skipped"
                              ELSE IF probe_ok THEN "ok" ELSE "failed"]
        /\ UNCHANGED <<lib_vars, mgr_vars, conc_vars>>

\* the stage of the pipeline a worker is in
Stage(pc) ==
    IF pc \in {"cv_mkstemp", "cv_append", "cv_poll", "vk_after_convert"}
    THEN "converting"
    ELSE "later"

\* stop_transcription, entry: the flag test, the flag is cleared
StopTranscription ==
    /\ caller.pc = "idle"
    /\ IF ~is_transcribing
       THEN UNCHANGED <<is_transcribing, caller, job>>
       ELSE /\ is_transcribing' = FALSE
            /\ caller' = [pc |-> "stop_terminate", job |-> njobs]
            /\ job' = [job EXCEPT ![njobs].stopped_at = Stage(worker[njobs].pc)]
    /\ call' = [op |-> "stop",
                ret |-> IF is_transcribing THEN "running" ELSE "False",
                active |-> is_transcribing,
                changed |-> is_transcribing,
                cleaned |-> FALSE,
                errors |-> 0,
                probe |-> "skipped"]
    /\ UNCHANGED <<transcription_thread, temp_files, ffmpeg_process, disk,
                   proc, worker, njobs>>
    /\ UNCHANGED <<lib_vars, mgr_vars, conc_vars>>

\* stop_transcription: terminate, wait, kill the ffmpeg process
StopTerminate ==
    /\ caller.pc = "stop_terminate"
    /\ IF ffmpeg_process # NoHandle
       THEN /\ proc' = [proc EXCEPT ![ffmpeg_process] = Terminate(@)]
            /\ ffmpeg_process' = NoHandle
       ELSE UNCHANGED <<proc, ffmpeg_process>>
    /\ caller' = [caller EXCEPT !.pc = "stop_join"]
    /\ UNCHANGED <<is_transcribing, transcription_thread, temp_files, disk,
                   worker, njobs, job>>
    /\ UNCHANGED <<lib_vars, mgr_vars, conc_vars, call>>

\* stop_transcription: join(timeout=1.0) returns, the worker ended or not
StopJoin ==
    /\ caller.pc = "stop_join"
    /\ transcription_thread' = NoHandle
    /\ caller' = [caller EXCEPT !.pc = "stop_cleanup"]
    /\ UNCHANGED <<is_transcribing, temp_files, ffmpeg_process, disk, proc,
                   worker, njobs, job>>
    /\ UNCHANGED <<lib_vars, mgr_vars, conc_vars, call>>

\* _cleanup_temp_files, the loop that removes the listed files
CleanupTempFiles == disk' = disk \ Range(temp_files)

\* stop_transcription: the loop of _cleanup_temp_files
StopCleanup ==
    /\ caller.pc = "stop_cleanup"
    /\ CleanupTempFiles
    /\ caller' = [caller EXCEPT !.pc = "stop_finish"]
    /\ call' = [call EXCEPT !.cleaned = TRUE]
    /\ UNCHANGED <<is_transcribing, transcription_thread, temp_files,
                   ffmpeg_process, proc, worker, njobs, job>>
    /\ UNCHANGED <<lib_vars, mgr_vars, conc_vars>>

\* stop_transcription: the list is emptied, transcription_finished is
\* emitted, the call returns
StopFinish ==
    /\ caller.pc = "stop_finish"
    /\ temp_files' = <<>>
    /\ job' = EmitFinished(job, caller.job)
    /\ caller' = [pc |-> "idle", job |-> NoHandle]
    /\ call' = [call EXCEPT !.ret = "True"]
    /\ UNCHANGED <<is_transcribing, transcription_thread, ffmpeg_process,
                   disk, proc, worker, njobs>>
    /\ UNCHANGED <<lib_vars, mgr_vars, conc_vars>>

-----------------------------------------------------------------------------
(* The file transcription pipeline: the worker thread of job j.            *)

Goto(j, pc) == [worker EXCEPT ![j].pc = pc]

\* _convert_to_wav returns: None on a failure, after error_occurred
\* unless the conversion was stopped (stopped); the temp file after
\* progress 20
ConvertReturn(j, ok, stopped) ==
    /\ worker' = [worker EXCEPT ![j] =
           IF ok THEN [EmitProgress(@, 20) EXCEPT !.pc = "vk_after_convert",
                                                  !.wav = TRUE]
                 ELSE [@ EXCEPT !.pc = "vk_after_convert", !.wav = FALSE]]
    /\ job' = IF ok THEN [job EXCEPT ![j].progress_ok =
                                         @ /\ ProgressOk(worker[j], 20)]
                    ELSE IF stopped THEN job
                    ELSE EmitError(job, j)

\* the except clause of _transcribe_file_thread: error_occurred, then the
\* finally clause
ThreadFault(j) ==
    /\ worker' = [worker EXCEPT ![j].pc = "fin_cleanup",
                                ![j].result = "failed"]
    /\ job' = EmitError(job, j)

\* _convert_to_wav: mkstemp creates the temp file
ConvertMkstemp(j) ==
    /\ worker[j].pc = "cv_mkstemp"
    /\ disk' = disk \cup {j}
    /\ worker' = Goto(j, "cv_append")
    /\ UNCHANGED <<is_transcribing, transcription_thread, temp_files,
                   ffmpeg_process, proc, caller, njobs, job>>
    /\ UNCHANGED <<lib_vars, mgr_vars, conc_vars, call>>

\* _convert_to_wav: the temp file is listed, progress 5, the first ffmpeg
\* process is started, or Popen raises
ConvertPopen(j) ==
    \E started \in BOOLEAN :
        /\ worker[j].pc = "cv_append"
        /\ temp_files' = Append(temp_files, j)
        /\ job' = [IF started THEN job ELSE EmitError(job, j)
                      EXCEPT ![j].progress_ok =
                                 @ /\ ProgressOk(worker[j], 5)]
        /\ IF started
           THEN /\ ffmpeg_process' = ConvProc(j)
                /\ proc' = [proc EXCEPT ![ConvProc(j)] = "running"]
                /\ worker' = [worker EXCEPT ![j] =
                       [EmitProgress(@, 5) EXCEPT !.pc = "cv_poll"]]
           ELSE /\ worker' = [worker EXCEPT ![j] =
                       [EmitProgress(@, 5) EXCEPT !.pc = "vk_after_convert",
                                                  !.wav = FALSE]]
                /\ UNCHANGED <<ffmpeg_process, proc>>
        /\ UNCHANGED <<is_transcribing, transcription_thread, disk, caller,
                       njobs>>
        /\ UNCHANGED <<lib_vars, mgr_vars, conc_vars, call>>

\* _convert_to_wav: one round of the loop that polls the process, and what
\* follows it.  A process that runs with the flag set makes the round
\* sleep; with the flag cleared it is terminated and None returned; of a
\* process that has ended the return code is looked at.  A handle that
\* stop_transcription has set to None in between makes the round raise,
\* and the except clause return None.
ConvertPoll(j) ==
    \E returncode \in {0, 1} :
        /\ worker[j].pc = "cv_poll"
        /\ IF ffmpeg_process = NoHandle
           THEN /\ worker' = [worker EXCEPT ![j].pc = "vk_after_convert",
                                            ![j].wav = FALSE]
                /\ job' = HandleFault(job, j)
                /\ UNCHANGED proc
           ELSE IF proc[ffmpeg_process] = "running"
           THEN /\ ~is_transcribing
                /\ proc' = [proc EXCEPT ![ffmpeg_process] = Terminate(@)]
                /\ ConvertReturn(j, FALSE, TRUE)
           ELSE /\ ConvertReturn(j, returncode = 0, FALSE)
                /\ UNCHANGED proc
        /\ UNCHANGED <<is_transcribing, transcription_thread, temp_files,
                       ffmpeg_process, disk, caller, njobs>>
        /\ UNCHANGED <<lib_vars, mgr_vars, conc_vars, call>>

\* _transcribe_file_with_vosk after _convert_to_wav: with no WAV file or
\* the flag cleared, transcription_finished and return; else the second
\* ffmpeg process is started
VoskAfterConvert(j) ==
    /\ worker[j].pc = "vk_after_convert"
    /\ IF ~worker[j].wav \/ ~is_transcribing
       THEN /\ job' = EmitFinished(job, j)
            /\ worker' = [worker EXCEPT ![j].pc = "fin_cleanup",
                                        ![j].result = "returned"]
            /\ UNCHANGED <<ffmpeg_process, proc>>
       ELSE /\ ffmpeg_process' = ReadProc(j)
            /\ proc' = [proc EXCEPT ![ReadProc(j)] = "running"]
            /\ job' = [job EXCEPT ![j].streaming = TRUE]
            /\ worker' = Goto(j, "rd_read")
    /\ UNCHANGED <<is_transcribing, transcription_thread, temp_files, disk,
                   caller, njobs>>
    /\ UNCHANGED <<lib_vars, mgr_vars, conc_vars, call>>

\* one round of the reading loop: the test of the flag, the read of a
\* chunk, the break at the end of the data; every 0.2 s (tick) the progress
\* is computed and emitted
ReadChunk(j) ==
    \E got \in BOOLEAN, tick \in BOOLEAN :
        /\ worker[j].pc = "rd_read"
        /\ got => worker[j].n < MaxChunks
        /\ IF ~is_transcribing
           THEN /\ worker' = Goto(j, "rd_terminate")
                /\ UNCHANGED job
           ELSE IF ffmpeg_process = NoHandle
           THEN /\ worker' = [worker EXCEPT ![j].pc = "fin_cleanup",
                                            ![j].result = "failed"]
                /\ job' = HandleFault(job, j)
           ELSE IF ~got
           THEN /\ worker' = Goto(j, "rd_terminate")
                /\ UNCHANGED job
           ELSE IF ~tick
           THEN /\ worker' = [worker EXCEPT ![j].n = @ + 1]
                /\ UNCHANGED job
           ELSE IF worker[j].duration = 0 THEN ThreadFault(j)
           ELSE LET progress == ReadProgress(worker[j].n + 1,
                                             worker[j].duration) IN
                /\ worker' = [worker EXCEPT ![j] =
                       [EmitProgress(@, progress) EXCEPT !.n = @ + 1]]
                /\ job' = [job EXCEPT ![j].progress_ok =
                                          @ /\ ProgressOk(worker[j], progress)]
        /\ UNCHANGED <<is_transcribing, transcription_thread, temp_files,
                       ffmpeg_process, disk, proc, caller, njobs>>
        /\ UNCHANGED <<lib_vars, mgr_vars, conc_vars, call>>

\* after the reading loop: terminate, wait, kill the process and drop the
\* handle; then, with the flag cleared, transcription_finished and return
ReadTerminate(j) ==
    /\ worker[j].pc = "rd_terminate"
    /\ IF ffmpeg_process # NoHandle
       THEN /\ proc' = [proc EXCEPT ![ffmpeg_process] = Terminate(@)]
            /\ ffmpeg_process' = NoHandle
       ELSE UNCHANGED <<proc, ffmpeg_process>>
    /\ IF ~is_transcribing
       THEN /\ job' = EmitFinished(job, j)
            /\ worker' = [worker EXCEPT ![j].pc = "fin_cleanup",
                                        ![j].result = "returned"]
       ELSE /\ worker' = Goto(j, "pr_loop")
            /\ UNCHANGED job
    /\ UNCHANGED <<is_transcribing, transcription_thread, temp_files, disk,
                   caller, njobs>>
    /\ UNCHANGED <<lib_vars, mgr_vars, conc_vars, call>>

\* one round of the processing loop: AcceptWaveform (which may raise) and
\* the progress; at the end of the chunks, or at the break on a cleared
\* flag: FinalResult, the merged text, progress 100
ProcessChunk(j) ==
    \E accepted \in BOOLEAN, tick \in BOOLEAN :
        /\ worker[j].pc = "pr_loop"
        /\ IF worker[j].i = worker[j].n \/ Breaks(is_transcribing)
           THEN /\ worker' = [worker EXCEPT ![j] =
                       [EmitProgress(@, 100) EXCEPT !.pc = "fin_cleanup",
                                                    !.result = "completed"]]
                /\ job' = [job EXCEPT ![j].progress_ok =
                                          @ /\ ProgressOk(worker[j], 100),
                                      ![j].done_after_break =
                                          worker[j].i < worker[j].n]
           ELSE IF ~accepted THEN ThreadFault(j)
           ELSE IF ~tick
           THEN /\ worker' = [worker EXCEPT ![j].i = @ + 1]
                /\ job' = Feed(job, j)
           ELSE LET progress == ProcessProgress(worker[j].i, worker[j].n) IN
                /\ worker' = [worker EXCEPT ![j] =
                       [EmitProgress(@, progress) EXCEPT !.i = @ + 1]]
                /\ job' = [Feed(job, j) EXCEPT ![j].progress_ok =
                                          @ /\ ProgressOk(worker[j], progress)]
        /\ UNCHANGED <<is_transcribing, transcription_thread, temp_files,
                       ffmpeg_process, disk, proc, caller, njobs>>
        /\ UNCHANGED <<lib_vars, mgr_vars, conc_vars, call>>

\* the percentages of _transcribe_file_with_manager, in their order
ManagerPercentages == <<10, 20, 90, 100>>

\* _transcribe_file_with_manager: progress 10 and 20,
\* model_manager.transcribe_file, progress 90, the text, progress 100
ManagerTranscribe(j) ==
    /\ worker[j].pc = "mg_transcribe"
    /\ worker' = [worker EXCEPT ![j] =
           [EmitProgress(@, ManagerPercentages[4])
               EXCEPT !.pc = "fin_cleanup", !.result = "completed"]]
    /\ job' = [job EXCEPT ![j].progress_ok =
           /\ @
           /\ ProgressOk(worker[j], ManagerPercentages[1])
           /\ \A k \in 1..3 :
                  ProgressOk(EmitProgress(worker[j], ManagerPercentages[k]),
                             ManagerPercentages[k + 1])]
    /\ UNCHANGED <<is_transcribing, transcription_thread, temp_files,
                   ffmpeg_process, disk, proc, caller, njobs>>
    /\ UNCHANGED <<lib_vars, mgr_vars, conc_vars, call>>

\* the finally clause: the loop of _cleanup_temp_files
ThreadCleanup(j) ==
    /\ worker[j].pc = "fin_cleanup"
    /\ CleanupTempFiles
    /\ worker' = Goto(j, "fin_finish")
    /\ UNCHANGED <<is_transcribing, transcription_thread, temp_files,
                   ffmpeg_process, proc, caller, njobs, job>>
    /\ UNCHANGED <<lib_vars, mgr_vars, conc_vars, call>>

\* the finally clause: the list is emptied, the flag is cleared,
\* transcription_finished is emitted, the thread ends
ThreadFinish(j) ==
    /\ worker[j].pc = "fin_finish"
    /\ temp_files' = <<>>
    /\ is_transcribing' = FALSE
    /\ job' = EmitFinished(job, j)
    /\ worker' = [worker EXCEPT ![j] = [NoWorker EXCEPT !.pc = "ended"]]
    /\ UNCHANGED <<transcription_thread, ffmpeg_process, disk, proc, caller,
                   njobs>>
    /\ UNCHANGED <<lib_vars, mgr_vars, conc_vars, call>>

\* the first ffmpeg process of a job comes to its end
ConvertExits(j) ==
    /\ proc[ConvProc(j)] = "running"
    /\ proc' = [proc EXCEPT ![ConvProc(j)] = "exited"]
    /\ UNCHANGED <<is_transcribing, transcription_thread, temp_files,
                   ffmpeg_process, disk, caller, worker, njobs, job>>
    /\ UNCHANGED <<lib_vars, mgr_vars, conc_vars, call>>

NextFT ==
    \/ StartTranscription
    \/ StopTranscription
    \/ StopTerminate
    \/ StopJoin
    \/ StopCleanup
    \/ StopFinish
    \/ \E j \in Jobs :
        \/ ConvertMkstemp(j)
        \/ ConvertPopen(j)
        \/ ConvertPoll(j)
        \/ ConvertExits(j)
        \/ VoskAfterConvert(j)
        \/ ReadChunk(j)
        \/ ReadTerminate(j)
        \/ ProcessChunk(j)
        \/ ManagerTranscribe(j)
        \/ ThreadCleanup(j)
        \/ ThreadFinish(j)

\* the pipeline is run on the base configuration with no model declared
InitFT == Init /\ models_config = BaseConfig /\ model_type = NoneStr

SpecFT == InitFT /\ [][NextFT]_vars

-----------------------------------------------------------------------------
(* The pipeline under fair scheduling.  The threads of the program are     *)
(* scheduled fairly: a step of stop_transcription or of a worker that can  *)
(* be taken is taken.  When the caller calls start_transcription and       *)
(* stop_transcription is up to the caller, and when an ffmpeg process      *)
(* comes to its end is up to that process: the program sets no limit to    *)
(* the time the conversion takes.                                          *)

\* the jobs the caller starts in the fair runs
MaxLiveJobs == 1

StartLive == njobs < MaxLiveJobs /\ StartTranscription

NextLive ==
    \/ StartLive
    \/ StopTranscription
    \/ StopTerminate
    \/ StopJoin
    \/ StopCleanup
    \/ StopFinish
    \/ \E j \in Jobs :
        \/ ConvertMkstemp(j)
        \/ ConvertPopen(j)
        \/ ConvertPoll(j)
        \/ ConvertExits(j)
        \/ VoskAfterConvert(j)
        \/ ReadChunk(j)
        \/ ReadTerminate(j)
        \/ ProcessChunk(j)
        \/ ManagerTranscribe(j)
        \/ ThreadCleanup(j)
        \/ ThreadFinish(j)

\* the thread inside stop_transcription goes on
CallerFair ==
    /\ WF_vars(StopTerminate)
    /\ WF_vars(StopJoin)
    /\ WF_vars(StopCleanup)
    /\ WF_vars(StopFinish)

\* the worker thread of job j goes on
WorkerFair(j) ==
    /\ WF_vars(ConvertMkstemp(j))
    /\ WF_vars(ConvertPopen(j))
    /\ WF_vars(ConvertPoll(j))
    /\ WF_vars(VoskAfterConvert(j))
    /\ WF_vars(ReadChunk(j))
    /\ WF_vars(ReadTerminate(j))
    /\ WF_vars(ProcessChunk(j))
    /\ WF_vars(ManagerTranscribe(j))
    /\ WF_vars(ThreadCleanup(j))
    /\ WF_vars(ThreadFinish(j))

SpecLive ==
    /\ InitFT
    /\ [][NextLive]_vars
    /\ CallerFair
    /\ \A j \in Jobs : WorkerFair(j)

-----------------------------------------------------------------------------
(* The text shaping, applied to one text.                                  *)

\* a call of _format_text on the text drawn
CallFormatText ==
    /\ ~shaping.done
    /\ shaping' = [shaping EXCEPT !.output = FormatText(shaping.input),
                                  !.done = TRUE]
    /\ UNCHANGED <<mgr_vars, conc_vars, ft_vars, plugins, reg, agg>>

NextText == CallFormatText

InitText ==
    /\ MgrInit /\ ConcInit /\ FtInit /\ RegInit /\ agg = NoAgg
    /\ models_config = BaseConfig
    /\ model_type = NoneStr
    /\ shaping \in {[NoShaping EXCEPT !.input = text] : text \in Texts}

SpecText == InitText /\ [][NextText]_vars

-----------------------------------------------------------------------------
(* The processing stage of _transcribe_file_with_vosk on given chunks.     *)

\* one round of the processing loop on the next chunk
AggChunk ==
    /\ agg.pc = "loop"
    /\ agg.i < Len(agg.chunks)
    /\ LET all_results == AcceptChunk(agg.all_results, agg.chunks[agg.i + 1])
       IN  agg' = [agg EXCEPT
               !.i = @ + 1,
               !.all_results = all_results,
               !.new_text = IF /\ Len(all_results) > Len(agg.all_results)
                               /\ Len(all_results) % 5 = 0
                            THEN InterimText(all_results) ELSE @,
               !.progress = ProcessProgress(agg.i, Len(agg.chunks))]
    /\ UNCHANGED <<mgr_vars, conc_vars, ft_vars, shaping, plugins, reg>>

\* the end of the loop, after the last chunk or at the break on the
\* cleared flag: FinalResult, the combined text, progress 100, the status
AggFinish ==
    /\ agg.pc = "loop"
    /\ LET all_results == AcceptFinal(agg.all_results, agg.final)
       IN  agg' = [agg EXCEPT
               !.pc = "done",
               !.all_results = all_results,
               !.new_text = FinalText(all_results),
               !.progress = 100,
               !.status = FinalStatus(all_results)]
    /\ UNCHANGED <<mgr_vars, conc_vars, ft_vars, shaping, plugins, reg>>

NextAgg == AggChunk \/ AggFinish

InitAgg ==
    /\ MgrInit /\ ConcInit /\ FtInit /\ RegInit
    /\ models_config = BaseConfig
    /\ model_type = NoneStr
    /\ shaping = NoShaping
    /\ agg \in {[NoAgg EXCEPT !.chunks = chunks, !.final = final] :
                    chunks \in ChunkSeqs, final \in ResultTexts}

SpecAgg == InitAgg /\ [][NextAgg]_vars

-----------------------------------------------------------------------------
(* The plugin registry: one action per method call.                        *)

\* register_plugin(name, plugin_class)
CallRegisterPlugin ==
    \E name \in FamilyNames, plugin_class \in PluginClasses :
        /\ plugins' = RegisterPlugin(plugins, name, plugin_class)
        /\ reg' = [op |-> "register_plugin", name |-> name,
                   plugin_class |-> plugin_class, build |-> NoneStr,
                   ret |-> NoneStr, made |-> NoneStr, kind |-> NoneStr,
                   cause |-> NoneStr, pre |-> plugins,
                   recent |-> [n \in DOMAIN reg.recent \cup {name} |->
                                  IF n = name THEN plugin_class
                                  ELSE reg.recent[n]]]
        /\ UNCHANGED <<mgr_vars, conc_vars, ft_vars, shaping, agg>>

\* get_plugin_class(name)
CallGetPluginClass ==
    \E name \in AskedNames :
        /\ reg' = [reg EXCEPT !.op = "get_plugin_class", !.name = name,
                              !.plugin_class = NoneStr, !.build = NoneStr,
                              !.ret = GetPluginClass(plugins, name),
                              !.made = NoneStr, !.kind = NoneStr,
                              !.cause = NoneStr, !.pre = plugins]
        /\ UNCHANGED <<mgr_vars, conc_vars, ft_vars, shaping, plugins, agg>>

\* create_plugin(name, config)
CallCreatePlugin ==
    \E name \in AskedNames, build \in PluginBuilds :
        LET r == CreatePlugin(plugins, name, build) IN
        /\ reg' = [reg EXCEPT !.op = "create_plugin", !.name = name,
                              !.plugin_class = NoneStr, !.build = build,
                              !.ret = r.ret, !.made = r.made,
                              !.kind = r.kind, !.cause = r.cause,
                              !.pre = plugins]
        /\ UNCHANGED <<mgr_vars, conc_vars, ft_vars, shaping, plugins, agg>>

NextReg ==
    \/ CallRegisterPlugin
    \/ CallGetPluginClass
    \/ CallCreatePlugin

InitReg == Init /\ models_config = BaseConfig /\ model_type = NoneStr

SpecReg == InitReg /\ [][NextReg]_vars

-----------------------------------------------------------------------------
(* Properties of load_model and get_current_engine_type.                   *)

\* the file layout the kind of a configured model asks for, whatever the
\* path is called
LayoutSatisfied(name, cfg, fs) ==
    /\ cfg[name].path # ""
    /\ fs.exists
    /\ IF name = "vosk_small" THEN FinalMdl \in fs.files
       ELSE TransducerFiles(IF Has0626(name) THEN SuffixChunk ELSE SuffixPlain,
                            cfg[name].type = "int8") \subseteq fs.files

LoadFailed == last.op = "load_model" /\ last.ret = "False"

\* C1: load is atomic: after every load_model call that returns failure the
\* active adapter is the adapter of before the call.
C1_FailedLoadKeepsAdapter ==
    LoadFailed => current_engine = last.pre.current_engine

\* C2: load_model with a name absent from the configuration, or with a
\* configured name whose required model files are missing, returns failure
\* and leaves every field of the engine state as it was before the call.
C2_RejectedLoadChangesNothing ==
    (/\ last.op = "load_model"
     /\ \/ last.arg \notin DOMAIN models_config
        \/ ~LayoutSatisfied(last.arg, models_config, last.fs))
    => /\ last.ret = "False"
       /\ MgrFields = last.pre

\* C3: for every configured, enabled model whose file layout is satisfied
\* and whose adapter constructs, load_model returns success and
\* get_current_engine_type called next returns that name.
C3_LoadThenResolveGivesName ==
    (/\ last.op = "load_model"
     /\ last.arg \in DOMAIN models_config
     /\ models_config[last.arg].enabled
     /\ LayoutSatisfied(last.arg, models_config, last.fs)
     /\ last.build \notin {"raise", "unready"})
    => /\ last.ret = "True"
       /\ GetCurrentEngineType(MgrCtx).ret = last.arg

\* a transducer variant is declared and the adapter's attributes are those
\* of another variant
VariantMismatch(f) ==
    /\ f.current_engine.cls = "SherpaOnnxASR"
    /\ f.model_type # NoneStr
    /\ StartsWithSherpa(f.model_type)
    /\ InferEngineType(f.current_engine) # f.model_type

\* C4: when the declared identity is one transducer variant and the
\* adapter's attributes indicate another, get_current_engine_type returns
\* the declared identity and records a consistency warning.
C4_MismatchReturnsDeclaredAndWarns ==
    (last.op = "get_current_engine_type" /\ VariantMismatch(last.pre))
    => /\ last.ret = last.pre.model_type
       /\ last.warned

\* C4, the value alone: in that case get_current_engine_type returns the
\* declared identity, never the inferred one.
C4_MismatchReturnsDeclared ==
    (last.op = "get_current_engine_type" /\ VariantMismatch(last.pre))
    => last.ret = last.pre.model_type

\* C13: for a load of a configured model with a path, validate_model_files
\* and _validate_model_path, given the model's kind, decide by the file
\* layout of that kind alone: they accept the directory exactly when it
\* holds the files of the kind, whatever the path is called.
C13_KindIsAuthoritative ==
    (/\ last.op = "load_model"
     /\ last.arg \in DOMAIN models_config
     /\ models_config[last.arg].path # "")
    => LET path == models_config[last.arg].path
           wanted == LayoutSatisfied(last.arg, models_config, last.fs)
       IN  /\ ValidateModelFiles(path, last.arg, models_config, last.fs)
                  <=> wanted
           /\ ValidateModelPath(path, last.arg, models_config, last.fs)
                  <=> wanted

\* C34: for a load of a configured transducer model with a path,
\* validate_model_files accepts exactly when the path exists and the
\* encoder, decoder and joiner files named after the int8 flag and the
\* 0626 tag, and tokens.txt, are all there; and it rejects, on the same
\* path, a kind that is neither vosk_small nor a transducer.
C34_TransducerNeedsItsFourFiles ==
    (/\ last.op = "load_model"
     /\ last.arg \in DOMAIN models_config
     /\ StartsWithSherpa(last.arg)
     /\ models_config[last.arg].path # "")
    => LET path == models_config[last.arg].path IN
       /\ ValidateModelFiles(path, last.arg, models_config, last.fs)
              <=> /\ PathExists(path, last.fs)
                  /\ \A i \in 1..4 :
                         RequiredFiles(last.arg, models_config)[i]
                             \in last.fs.files
       /\ ~ValidateModelFiles(path, "no_such_model", models_config, last.fs)

\* C37: after a load_model call of a transducer model that returned True
\* the type and the name the SherpaOnnxASR adapter was constructed with
\* are the int8 flag and the 0626 tag by which the validators chose the
\* file names: the type of the model's descriptor and "0626" in its name.
C37_ValidatorAndConstructorAgree ==
    (/\ last.op = "load_model"
     /\ last.ret = "True"
     /\ StartsWithSherpa(last.arg)
     /\ current_engine.cls = "SherpaOnnxASR")
    => /\ (current_engine.cfg_type = "int8")
              <=> (models_config[last.arg].type = "int8")
       /\ (current_engine.cfg_name = "0626") <=> Has0626(last.arg)

\* the same adapter object: the attributes it was built with are the same
\* (its engine_type attribute may have been set)
SameAdapter(a, b) ==
    [a EXCEPT !.engine_type = ""] = [b EXCEPT !.engine_type = ""]

\* C14: a transcribe_file call made with an adapter loaded leaves that
\* adapter in place, and when the adapter has no transcribe_file method
\* the call returns None with the adapter and model_type as they were.
C14_NoEngineSubstitution ==
    (last.op = "transcribe_file" /\ last.pre.current_engine.cls # "None")
    => /\ SameAdapter(current_engine, last.pre.current_engine)
       /\ ~last.file.has_transcribe_file
              => /\ last.ret = NoneStr
                 /\ model_type = last.pre.model_type

\* transcribe_file hands the file to a FileTranscriber: a VoskASR adapter
\* is loaded, the file exists and is not named .wav
ThroughPipeline ==
    /\ last.op = "transcribe_file"
    /\ last.pre.current_engine.cls = "VoskASR"
    /\ last.file.has_transcribe_file
    /\ last.file.exists
    /\ ~last.file.wav

\* C15: when transcribe_file hands the file to the FileTranscriber and
\* the loaded adapter gives a transcript there, transcribe_file returns
\* that transcript (as it is or formatted), not None, and the adapter is
\* the one that was loaded.
C15_FallbackReturnsTranscript ==
    (/\ ThroughPipeline
     /\ last.file.probe_ok
     /\ last.file.outcome = "text"
     /\ ~last.file.timed_out)
    => /\ last.ret = "text"
       /\ last.text \in {Transcript, FormatText(Transcript)}
       /\ SameAdapter(current_engine, last.pre.current_engine)

\* C16: a transcribe call made with no adapter loaded, or in which the
\* adapter's transcribe faults, returns None (the fault does not come out
\* of the call) and leaves every field of the engine state as it was.
C16_TranscribeFailsGracefully ==
    (/\ last.op = "transcribe"
     /\ \/ last.pre.current_engine.cls = "None"
        \/ last.arg = "raise")
    => /\ last.ret = NoneStr
       /\ MgrFields = last.pre

\* a loaded, set-up adapter faulted in transcribe and the call returned
C16_Witness ==
    /\ last.op = "transcribe"
    /\ last.arg = "raise"
    /\ last.pre.current_engine.cls = "SherpaOnnxASR"
    /\ last.pre.current_engine.ready
    /\ last.ret = NoneStr
    /\ current_engine = last.pre.current_engine

\* C17: get_current_engine_type returns None whenever no adapter is
\* loaded, whether or not model_type is set.
C17_NoAdapterResolvesToNone ==
    (/\ last.op = "get_current_engine_type"
     /\ last.pre.current_engine.cls = "None")
    => last.ret = NoneStr

\* C18: a model_type that is set before a get_current_engine_type call has
\* the same value after it, whatever the adapter is.
C18_DeclaredIdentityKept ==
    (/\ last.op = "get_current_engine_type"
     /\ last.pre.model_type # NoneStr)
    => model_type = last.pre.model_type

\* the events e in the sequence ev
Count(ev, e) == Cardinality({k \in 1..Len(ev) : ev[k] = e})

\* C19: start_recognition while recognizing and stop_recognition while not
\* recognizing return True, change no field and emit no event; a start
\* that sets is_recognizing emits recognition_started once and a stop that
\* clears it emits recognition_stopped once, so two calls in a row emit
\* one event.
C19_RecognitionControlsIdempotent ==
    /\ (last.op = "start_recognition" /\ last.pre.is_recognizing)
       => /\ last.ret = "True"
          /\ last.ev = <<>>
          /\ MgrFields = last.pre
    /\ (last.op = "stop_recognition" /\ ~last.pre.is_recognizing)
       => /\ last.ret = "True"
          /\ last.ev = <<>>
          /\ MgrFields = last.pre
    /\ (last.op = "start_recognition" /\ ~last.pre.is_recognizing
          /\ last.ret = "True")
       => /\ is_recognizing
          /\ Count(last.ev, "recognition_started") = 1
    /\ (last.op = "stop_recognition" /\ last.pre.is_recognizing)
       => /\ last.ret = "True"
          /\ ~is_recognizing
          /\ Count(last.ev, "recognition_stopped") = 1

\* stop_recognition was called with an adapter and a device set and the
\* recognition not running, and returned True without an event
C19_Witness ==
    /\ last.op = "stop_recognition"
    /\ ~last.pre.is_recognizing
    /\ last.pre.current_engine.cls # "None"
    /\ last.pre.current_device # NoneStr
    /\ last.ret = "True"
    /\ last.ev = <<>>
    /\ ~is_recognizing

\* C20: start_recognition called with no adapter loaded or no device set
\* returns False, leaves is_recognizing false and every other field as it
\* was, and emits no recognition_started.
C20_StartNotReadyFails ==
    (/\ last.op = "start_recognition"
     /\ \/ last.pre.current_engine.cls = "None"
        \/ last.pre.current_device = NoneStr)
    => /\ last.ret = "False"
       /\ ~is_recognizing
       /\ MgrFields = last.pre
       /\ Count(last.ev, "recognition_started") = 0

\* start_recognition was refused with an adapter loaded and no device
C20_Witness ==
    /\ last.op = "start_recognition"
    /\ last.pre.current_engine.cls # "None"
    /\ last.pre.current_engine.ready
    /\ last.pre.current_device = NoneStr
    /\ last.ret = "False"
    /\ ~is_recognizing

\* C21: every load_model call that returns False has emitted
\* model_loaded(False) before it returned.
C21_FailedLoadEmitsModelLoadedFalse ==
    LoadFailed => Count(last.ev, "model_loaded(False)") >= 1

\* a call of the manager ended with a negative result: a load_model or a
\* recognition control that returned False, or a transcribe that had no
\* adapter or whose decode faulted
NegativeResult ==
    \/ last.op \in {"load_model", "start_recognition", "stop_recognition"}
       /\ last.ret = "False"
    \/ /\ last.op = "transcribe"
       /\ last.ret = NoneStr
       /\ \/ last.pre.current_engine.cls = "None"
          \/ last.arg = "raise"

\* C22: a manager call that ends with a negative result has emitted a
\* status or an error event before it returned.
C22_NegativeResultEmitsEvent ==
    NegativeResult
    => \E k \in 1..Len(last.ev) :
          last.ev[k] \in {"error_occurred", "status_updated",
                          "model_loaded(False)"}

\* C23: a load_model call that returns True has emitted model_loaded(True)
\* exactly once.
C23_SuccessfulLoadEmitsOnce ==
    (last.op = "load_model" /\ last.ret = "True")
    => Count(last.ev, "model_loaded(True)") = 1

\* C36: after a load_model call that returns False, at whatever step it
\* failed, model_type has the value it had before the call.
C36_FailedLoadKeepsDeclaredIdentity ==
    LoadFailed => model_type = last.pre.model_type

C6_NoDecodeMidSwap ==
    (decoded.load_pc # "idle" /\ decoded.engine.cls # "None")
    => decoded.engine.ready

-----------------------------------------------------------------------------
(* Properties of the file transcription pipeline.                          *)

\* the worker thread of job j is running
WorkerActive(j) == worker[j].pc \notin {"none", "ended"}

\* job j has come to its end: no worker of it is running and no
\* stop_transcription call on it is under way
JobOver(j) ==
    /\ j <= njobs
    /\ ~WorkerActive(j)
    /\ ~(caller.pc # "idle" /\ caller.job = j)

\* C5: at most one worker thread is running at any time on one
\* FileTranscriber, whatever the interleaving of start_transcription,
\* stop_transcription and the workers.
C5_AtMostOneWorker ==
    Cardinality({j \in Jobs : WorkerActive(j)}) <= 1

\* C7: a job that has come to its end has had exactly one
\* transcription_finished event emitted for it, by stop_transcription and
\* the worker together, and no job ever has more than one.
C7_ExactlyOneFinished ==
    \A j \in Jobs :
        /\ job[j].finished <= 1
        /\ JobOver(j) => job[j].finished = 1

\* C8: once a job has come to its end, by whatever path, the temp file it
\* created is removed, no ffmpeg process it started is running, and with
\* every job over the list of temp files is empty.
C8_CleanupOnEveryExit ==
    /\ \A j \in Jobs :
           JobOver(j) => /\ j \notin disk
                         /\ proc[ConvProc(j)] # "running"
                         /\ proc[ReadProc(j)] # "running"
    /\ (\A j \in 1..njobs : JobOver(j)) => temp_files = <<>>

\* C9: a job on which stop_transcription was called during the conversion
\* to WAV never starts the extraction and feeds no chunk to the recognizer,
\* and once it has come to its end its temp file is removed and its
\* conversion process is not running.
C9_StopWhileConverting ==
    \A j \in Jobs :
        job[j].stopped_at = "converting"
        => /\ ~job[j].streaming
           /\ ~job[j].fed
           /\ JobOver(j) => /\ j \notin disk
                            /\ proc[ConvProc(j)] # "running"

\* C11: a start_transcription call made while the flag of a job is set
\* returns False and leaves the flag, the thread reference, the ffmpeg
\* handle, the list of temp files and the worker threads as they were.
C11_StartWhileActiveChangesNothing ==
    (call.op = "start" /\ call.active)
    => /\ call.ret = "False"
       /\ ~call.changed

\* a start was refused while the worker of the job reads the extraction
\* process, and the job still holds its thread, its process and its file
C11_Witness ==
    /\ call.op = "start"
    /\ call.active
    /\ call.ret = "False"
    /\ is_transcribing
    /\ transcription_thread = njobs
    /\ worker[njobs].pc = "rd_read"
    /\ ffmpeg_process = ReadProc(njobs)
    /\ temp_files = <<njobs>>

\* the latest job was stopped, or its worker ran to its end
StoppedOrEnded ==
    /\ njobs >= 1
    /\ \/ job[njobs].stopped_at # "none"
       \/ worker[njobs].pc = "ended"

\* C12: a stop_transcription call made after a stop or after the job came
\* to its end by itself returns True and runs the cleanup of temp files.
C12_StopIdempotent ==
    (/\ call.op = "stop"
     /\ call.ret # "running"
     /\ ~call.active
     /\ StoppedOrEnded)
    => /\ call.ret = "True"
       /\ call.cleaned

\* the latest call on the pipeline was a start whose probe failed; the job
\* it was for is the latest one
ProbeFailed == call.op = "start" /\ call.probe = "failed"

\* C24: a start_transcription whose probe fails returns False after one
\* error_occurred; the job has no worker and none of its ffmpeg processes
\* was started, it is over with its transcription_finished, and the flag
\* is clear, so that the next start is not refused.
C24_ProbeFailureEndsJob ==
    ProbeFailed
    => /\ call.ret = "False"
       /\ call.errors = 1
       /\ job[njobs].errors = 1
       /\ job[njobs].finished = 1
       /\ worker[njobs] = NoWorker
       /\ proc[ConvProc(njobs)] = "none"
       /\ proc[ReadProc(njobs)] = "none"
       /\ ~job[njobs].streaming
       /\ ~AlreadyTranscribing

\* the probe of the second job failed after the first job was over
C24_Witness ==
    /\ ProbeFailed
    /\ njobs = 2
    /\ job[1].finished >= 1
    /\ call.ret = "False"
    /\ ~is_transcribing

\* a fault came up in the worker of job j: its conversion failed or its
\* body raised, which is when the worker emits error_occurred
WorkerFaulted(j) == worker[j].pc # "none" /\ job[j].errors >= 1

\* C25: a job whose worker met a fault and has come to its end has its
\* error_occurred and its transcription_finished, its temp file is
\* removed, none of its ffmpeg processes is running, and, when it is the
\* latest job, the flag is clear so that the next start is not refused.
C25_FaultEndsOnlyTheJob ==
    \A j \in Jobs :
        (WorkerFaulted(j) /\ JobOver(j))
        => /\ job[j].finished >= 1
           /\ j \notin disk
           /\ proc[ConvProc(j)] # "running"
           /\ proc[ReadProc(j)] # "running"
           /\ (j = njobs /\ caller.pc = "idle") => ~AlreadyTranscribing

\* C33: once stop_transcription was called on a job that is past its
\* conversion the worker of the job feeds no chunk to the recognizer: the
\* processing loop tests the flag before every chunk, so a chunk fed
\* after the call is one the test let through.
C33_NoChunkFedAfterStop ==
    \A j \in Jobs : ~job[j].fed_after_stop

\* C35: a job whose processing loop found the flag cleared and left the
\* chunks that remained emits no progress 100 (nor the final text and the
\* "complete" status that go with it).
C35_CancelledIsNotDone ==
    \A j \in Jobs : ~job[j].done_after_break

\* C38: no worker uses self.ffmpeg_process after stop_transcription has
\* set it to None: no job gets an error_occurred from the fault that the
\* use of the None handle raises.
C38_NoUseOfClearedHandle ==
    \A j \in Jobs : ~job[j].handle_fault

\* C10: within one job the progress_updated percentages never decrease and
\* stay within 0..100, and a job that ran to completion has emitted 100 as
\* its last percentage.
C10_ProgressMonotonic ==
    \A j \in Jobs :
        /\ job[j].progress_ok
        /\ worker[j].progress \in 0..100
        /\ worker[j].result = "completed" => worker[j].progress = 100

\* a job of the Vosk route that read and processed MaxChunks chunks has
\* run to completion, with its flag set, and its worker is in the finally
\* clause
C10_Witness ==
    \E j \in Jobs :
        /\ worker[j].pc = "fin_cleanup"
        /\ worker[j].route = "vosk"
        /\ worker[j].n = MaxChunks
        /\ worker[j].i = MaxChunks
        /\ worker[j].result = "completed"
        /\ worker[j].progress = 100
        /\ job[j].stopped_at = "none"
        /\ is_transcribing

-----------------------------------------------------------------------------
(* Properties of the text shaping.                                         *)

\* C26 as stated: _format_text returns the empty text as it is, and of any
\* other text the text with its first character in upper case and with a
\* full stop appended when its last character is no punctuation, and
\* nothing else.
C26_ShapingAsStated ==
    shaping.done
    => IF shaping.input = NoText THEN shaping.output = NoText
       ELSE shaping.output = Punctuate(Capitalize(shaping.input))

\* C26: _format_text returns the empty text as it is.  Of any other text
\* the first character comes back in upper case and the characters after
\* it as they are; a text that ends in punctuation keeps its length and
\* one that does not gets one character more, a full stop.  The one
\* exception is the question rule: the full stop at the end is a question
\* mark when the first word of the punctuated text is a question word.
C26_ShapingUpToQuestionMark ==
    shaping.done
    => IF shaping.input = NoText THEN shaping.output = NoText
       ELSE LET in == shaping.input
                out == shaping.output
                n == Len(in)
                asked == LowerWord(FirstWord(Punctuate(Capitalize(in))))
                             \in QuestionStarters
            IN  /\ out[1] \notin Range(LowerCase)
                /\ Lower(out[1]) = Lower(in[1])
                /\ \A k \in 2..(n - 1) : out[k] = in[k]
                /\ IF in[n] \in Punctuation
                   THEN /\ Len(out) = n
                        /\ IF asked /\ in[n] = "." THEN out[n] = "?"
                           ELSE n > 1 => out[n] = in[n]
                   ELSE /\ Len(out) = n + 1
                        /\ n > 1 => out[n] = in[n]
                        /\ out[n + 1] = IF asked THEN "?" ELSE "."

\* "it is" came back as "It is."
C26_Witness ==
    /\ shaping.done
    /\ shaping.input = <<"i", "t", " ", "i", "s">>
    /\ shaping.output = <<"I", "t", " ", "i", "s", ".">>

\* C27: a text whose first word is a question word, in whatever case, and
\* which would get or has a full stop at its end comes back with a
\* question mark at its end, however many words it has; a text whose
\* first word is no question word comes back with a question mark at its
\* end only if it had one.
C27_QuestionRule ==
    (shaping.done /\ shaping.input # NoText)
    => LET in == shaping.input
           out == shaping.output
           shaped == Punctuate(Capitalize(in))
       IN  IF LowerWord(FirstWord(in)) \in QuestionStarters
           THEN shaped[Len(shaped)] = "." => out[Len(out)] = "?"
           ELSE out[Len(out)] = "?" => in[Len(in)] = "?"

\* C40: _format_text applied to a text it has returned returns that text
\* again.
C40_ShapingIdempotent ==
    shaping.done => FormatText(shaping.output) = shaping.output

\* "is it" came back as "Is it?", and "Is it?" comes back as it is
C40_Witness ==
    /\ shaping.done
    /\ shaping.input = <<"i", "s", " ", "i", "t">>
    /\ shaping.output = <<"I", "s", " ", "i", "t", "?">>
    /\ FormatText(shaping.output) = shaping.output

-----------------------------------------------------------------------------
(* Properties of the aggregation.                                          *)

\* the texts, stripped of the blanks around them, of the chunks fed so
\* far that the recognizer accepted with a text that is not blank
KeptResults ==
    LET fed == SubSeq(agg.chunks, 1, agg.i)
        Kept(chunk) == chunk.accepted /\ Strip(chunk.text) # NoText
        kept == SelectSeq(fed, Kept)
    IN  [k \in 1..Len(kept) |-> Strip(kept[k].text)]

\* C31: the text a job reports at its end is the shaping of the join,
\* with single spaces, of the results of the chunks that were fed, in the
\* order of the chunks and each one once, followed by the final result
\* when there is one.
C31_AggregationKeepsOrder ==
    /\ agg.pc = "loop" => agg.all_results = KeptResults
    /\ agg.pc = "done"
       => LET expected == IF Strip(agg.final) # NoText
                          THEN Append(KeptResults, Strip(agg.final))
                          ELSE KeptResults
          IN  /\ agg.all_results = expected
              /\ expected # <<>>
                 => agg.new_text = <<HeaderMark, "result">>
                                       \o FormatText(JoinTexts(expected))

\* three chunks gave "is", nothing and "it ", the final result was "is",
\* and the job reported "Is it is?"
C31_Witness ==
    /\ agg.pc = "done"
    /\ agg.i = 3
    /\ agg.chunks[1].text = <<"i", "s">>
    /\ ~agg.chunks[2].accepted
    /\ agg.chunks[3].text = <<"i", "t", " ">>
    /\ agg.final = <<"i", "s">>
    /\ agg.new_text = <<HeaderMark, "result", "I", "s", " ", "i", "t", " ",
                        "i", "s", "?">>

\* C32: a job that ends with no result emits no error_occurred, no text
\* and no status that tells a failure.
C32_EmptyResultIsNotFailure ==
    (agg.pc = "done" /\ agg.all_results = <<>>)
    => /\ agg.errors = 0
       /\ agg.new_text # <<HeaderMark, "failed">>
       /\ agg.status # "failed"

-----------------------------------------------------------------------------
(* Properties of the plugin registry.                                      *)

\* C28: a create_plugin call returns (no fault comes out of it) and leaves
\* the registered classes as they were; for a name that is not registered
\* what it returns tells UnknownFamily, and for a registered class whose
\* constructor raises it tells ConstructionFailed and carries the cause.
C28_CreateFailuresAreTold ==
    reg.op = "create_plugin"
    => /\ plugins = reg.pre
       /\ reg.name \notin DOMAIN reg.pre
          => /\ reg.ret = NoneStr
             /\ reg.kind = "UnknownFamily"
       /\ (reg.name \in DOMAIN reg.pre /\ reg.build = "raise")
          => /\ reg.ret = NoneStr
             /\ reg.kind = "ConstructionFailed"
             /\ reg.cause # NoneStr

\* C29: after any register_plugin calls every name that was registered is
\* looked up to the class of the most recent call for it; a register_plugin
\* call sets the class of its name, adds the name if it is new and leaves
\* the class of every other name; get_plugin_class and create_plugin use
\* the class of the most recent call.
C29_RegisterOverwrites ==
    /\ DOMAIN plugins = DOMAIN reg.recent
    /\ \A n \in DOMAIN reg.recent :
           GetPluginClass(plugins, n) = reg.recent[n]
    /\ reg.op = "register_plugin"
       => /\ DOMAIN plugins = DOMAIN reg.pre \cup {reg.name}
          /\ plugins[reg.name] = reg.plugin_class
          /\ \A n \in DOMAIN reg.pre \ {reg.name} : plugins[n] = reg.pre[n]
    /\ (reg.op = "get_plugin_class" /\ reg.name \in DOMAIN reg.recent)
       => reg.ret = reg.recent[reg.name]
    /\ (reg.op = "create_plugin" /\ reg.ret = "plugin")
       => reg.made = reg.recent[reg.name]

\* a built-in name was registered again with another class, and a plugin
\* of that class was created under it
C29_Witness ==
    /\ reg.op = "create_plugin"
    /\ reg.name = "vosk_small"
    /\ reg.ret = "plugin"
    /\ reg.made = "CustomPlugin"
    /\ plugins["sherpa_onnx"] = "SherpaOnnxPlugin"

-----------------------------------------------------------------------------
(* Liveness of the pipeline.                                               *)

\* the worker of job j has ended, its transcription_finished was emitted
\* and no job is active
JobTerminal(j) ==
    /\ worker[j].pc = "ended"
    /\ job[j].finished >= 1
    /\ ~is_transcribing

\* a stop_transcription call has returned
StopReturned == caller.pc = "idle" /\ call.op = "stop" /\ call.ret = "True"

\* C30, the part about stop: a stop_transcription call that has cleared
\* the flag returns, after the terminate of the ffmpeg process and the
\* join of the worker.
C30_StopReturns == (caller.pc # "idle") ~> StopReturned

\* C30: under fair scheduling of the threads the worker of every started
\* job comes to its end with the completion event emitted and no job
\* active, and every stop_transcription call returns.
C30_NothingBlocks ==
    /\ \A j \in Jobs : WorkerActive(j) ~> JobTerminal(j)
    /\ C30_StopReturns

====
